---- MODULE Spec2Model ----
(***************************************************************************)
(* Model of the bayer-backend month normaliser (app/utils/months.py), the  *)
(* table operations facade (app/services/bigquery_service.py) and the HTTP *)
(* handlers (app/main.py).                                                 *)
(*                                                                         *)
(* Python strings are modelled as sequences of one-character strings, so   *)
(* that strip, split, capitalize, int() and the format specs are computed  *)
(* character by character as the interpreter computes them.                *)
(***************************************************************************)
EXTENDS Integers, Sequences, FiniteSets, TLC

(***************************************************************************)
(* Python str / int primitives used by the source.                         *)
(***************************************************************************)
LOWER == <<"a","b","c","d","e","f","g","h","i","j","k","l","m",
           "n","o","p","q","r","s","t","u","v","w","x","y","z">>

UPPER == <<"A","B","C","D","E","F","G","H","I","J","K","L","M",
           "N","O","P","Q","R","S","T","U","V","W","X","Y","Z">>

DIGITS == <<"0","1","2","3","4","5","6","7","8","9">>

Range(f) == { f[i] : i \in DOMAIN f }

IsLower(c) == c \in Range(LOWER)

IsUpper(c) == c \in Range(UPPER)

IsDigit(c) == c \in Range(DIGITS)

IsSpace(c) == c \in {" ", "\t", "\n"}

IsAlnum(c) == IsLower(c) \/ IsUpper(c) \/ IsDigit(c)

DigitVal(c) == (CHOOSE i \in DOMAIN DIGITS : DIGITS[i] = c) - 1

ToUpper(c) == IF IsLower(c) THEN UPPER[CHOOSE i \in DOMAIN LOWER : LOWER[i] = c] ELSE c

ToLower(c) == IF IsUpper(c) THEN LOWER[CHOOSE i \in DOMAIN UPPER : UPPER[i] = c] ELSE c

\* str.lower()
Lower(s) == [i \in DOMAIN s |-> ToLower(s[i])]

\* str.upper()
Upper(s) == [i \in DOMAIN s |-> ToUpper(s[i])]

\* str.capitalize(): first character upper-cased, the rest lower-cased
Capitalize(s) == [i \in DOMAIN s |-> IF i = 1 THEN ToUpper(s[i]) ELSE ToLower(s[i])]

RECURSIVE LStrip(_)
LStrip(s) == IF s # <<>> /\ IsSpace(Head(s)) THEN LStrip(Tail(s)) ELSE s

RECURSIVE RStrip(_)
RStrip(s) ==
    IF s # <<>> /\ IsSpace(s[Len(s)]) THEN RStrip(SubSeq(s, 1, Len(s) - 1)) ELSE s

\* str.strip()
Strip(s) == RStrip(LStrip(s))

\* str.replace(a, b) for one-character a and b
Replace(s, a, b) == [i \in DOMAIN s |-> IF s[i] = a THEN b ELSE s[i]]

\* sep in s
Contains(s, sep) == \E i \in DOMAIN s : s[i] = sep

\* the index of the first sep in s
FirstIndex(s, sep) == CHOOSE k \in DOMAIN s : s[k] = sep /\ \A j \in 1..(k - 1) : s[j] # sep

\* str.split(sep) for a one-character sep: empty fields are kept
RECURSIVE Split(_, _)
SplitAt(s, sep, i) == <<SubSeq(s, 1, i - 1)>> \o Split(SubSeq(s, i + 1, Len(s)), sep)

Split(s, sep) == IF ~Contains(s, sep) THEN <<s>> ELSE SplitAt(s, sep, FirstIndex(s, sep))

\* the length of the first whitespace-free run of t
FirstFieldLen(t) ==
    IF \E k \in DOMAIN t : IsSpace(t[k])
    THEN (CHOOSE k \in DOMAIN t : IsSpace(t[k]) /\ \A j \in 1..(k - 1) : ~IsSpace(t[j])) - 1
    ELSE Len(t)

\* str.split() with no argument: runs of whitespace separate, no empty fields
RECURSIVE SplitWs(_)
SplitWsCut(t, n) == <<SubSeq(t, 1, n)>> \o SplitWs(SubSeq(t, n + 1, Len(t)))

SplitWsStripped(t) == IF t = <<>> THEN <<>> ELSE SplitWsCut(t, FirstFieldLen(t))

SplitWs(s) == SplitWsStripped(LStrip(s))

\* sep.join(parts)
RECURSIVE Join(_, _)
Join(parts, sep) ==
    IF parts = <<>> THEN <<>>
    ELSE IF Len(parts) = 1 THEN parts[1]
    ELSE parts[1] \o sep \o Join(Tail(parts), sep)

\* The digits-and-underscores body of an int() literal: digits, with single
\* underscores allowed only between two digits.
IsIntBody(b) ==
    /\ b # <<>>
    /\ \A i \in DOMAIN b : IsDigit(b[i]) \/ b[i] = "_"
    /\ IsDigit(b[1]) /\ IsDigit(b[Len(b)])
    /\ \A i \in 1..(Len(b) - 1) : ~(b[i] = "_" /\ b[i + 1] = "_")

RECURSIVE IntBodyVal(_, _)
IntBodyVal(b, acc) ==
    IF b = <<>> THEN acc
    ELSE IF Head(b) = "_" THEN IntBodyVal(Tail(b), acc)
    ELSE IntBodyVal(Tail(b), 10 * acc + DigitVal(Head(b)))

PyIntSigned(sign, body) ==
    IF IsIntBody(body)
    THEN [ok |-> TRUE,
          val |-> IF sign = "-" THEN 0 - IntBodyVal(body, 0) ELSE IntBodyVal(body, 0)]
    ELSE [ok |-> FALSE, val |-> 0]

PyIntStripped(t) ==
    IF t # <<>> /\ t[1] \in {"+", "-"} THEN PyIntSigned(t[1], Tail(t)) ELSE PyIntSigned("", t)

\* int(s): [ok |-> TRUE, val |-> n], or ok = FALSE where Python raises ValueError
PyInt(s) == PyIntStripped(Strip(s))

\* str(n) for n >= 0
RECURSIVE NatToStr(_)
NatToStr(n) == IF n < 10 THEN <<DIGITS[n + 1]>> ELSE NatToStr(n \div 10) \o <<DIGITS[(n % 10) + 1]>>

\* f"{n:02d}": zero-padded to a total width of two, sign included
Fmt02d(n) ==
    IF n < 0 THEN <<"-">> \o NatToStr(0 - n)
    ELSE IF n < 10 THEN <<"0">> \o NatToStr(n)
    ELSE NatToStr(n)

SP == <<" ">>

SLASH == <<"/">>

(***************************************************************************)
(* app/utils/months.py                                                     *)
(***************************************************************************)
MONTHS_FULL ==
    << <<"E","n","e","r","o">>,
       <<"F","e","b","r","e","r","o">>,
       <<"M","a","r","z","o">>,
       <<"A","b","r","i","l">>,
       <<"M","a","y","o">>,
       <<"J","u","n","i","o">>,
       <<"J","u","l","i","o">>,
       <<"A","g","o","s","t","o">>,
       <<"S","e","p","t","i","e","m","b","r","e">>,
       <<"O","c","t","u","b","r","e">>,
       <<"N","o","v","i","e","m","b","r","e">>,
       <<"D","i","c","i","e","m","b","r","e">> >>

\* MONTHS_ABBR maps abbreviation -> number; the tuple lists the keys by number
MONTHS_ABBR ==
    << <<"E","n","e">>,
       <<"F","e","b">>,
       <<"M","a","r">>,
       <<"A","b","r">>,
       <<"M","a","y">>,
       <<"J","u","n">>,
       <<"J","u","l">>,
       <<"A","g","o">>,
       <<"S","e","p">>,
       <<"O","c","t">>,
       <<"N","o","v">>,
       <<"D","i","c">> >>

\* MONTHS_FULL_INDEX.get(name): 0 stands for None
MONTHS_FULL_INDEX(name) ==
    IF \E i \in DOMAIN MONTHS_FULL : MONTHS_FULL[i] = name
    THEN CHOOSE i \in DOMAIN MONTHS_FULL : MONTHS_FULL[i] = name
    ELSE 0

\* MONTHS_ABBR.get(abbr): 0 stands for None
MONTHS_ABBR_GET(abbr) ==
    IF \E i \in DOMAIN MONTHS_ABBR : MONTHS_ABBR[i] = abbr
    THEN CHOOSE i \in DOMAIN MONTHS_ABBR : MONTHS_ABBR[i] = abbr
    ELSE 0

\* MONTH_NUM_TO_ABBR.get(n, default)
MONTH_NUM_TO_ABBR(n, default) == IF n \in DOMAIN MONTHS_ABBR THEN MONTHS_ABBR[n] ELSE default

SENTINEL == <<9999, 99>>

RECURSIVE dedupe_from(_, _)
dedupe_from(values, ordered) ==
    IF values = <<>> THEN ordered
    ELSE IF Head(values) \in Range(ordered) THEN dedupe_from(Tail(values), ordered)
    ELSE dedupe_from(Tail(values), Append(ordered, Head(values)))

dedupe_preserve_order(values) == dedupe_from(values, <<>>)

\* int(year_str.strip()), month_index: the last two lines of the try block
parse_instar_fields(month_index, year) ==
    IF month_index = 0 THEN [raised |-> "none", val |-> SENTINEL]
    ELSE IF ~year.ok THEN [raised |-> "ValueError", val |-> <<>>]
    ELSE [raised |-> "none", val |-> <<year.val, month_index>>]

\* parse_instar_parts looking the month name up as typed, not capitalized
parse_instar_parts_as_typed(parts) ==
    IF Len(parts) # 2 THEN [raised |-> "ValueError", val |-> <<>>]
    ELSE parse_instar_fields(MONTHS_FULL_INDEX(Strip(parts[1])), PyInt(Strip(parts[2])))

\* month_name, year_str = label.split("/"): other than two fields raises ValueError,
\* as does int() of a non-integer
parse_instar_parts(parts) ==
    IF Len(parts) # 2 THEN [raised |-> "ValueError", val |-> <<>>]
    ELSE parse_instar_fields(MONTHS_FULL_INDEX(Capitalize(Strip(parts[1]))),
                             PyInt(Strip(parts[2])))

\* the try block of parse_instar_label: the value returned or the exception raised
parse_instar_try(label) == parse_instar_parts(Split(label, "/"))

\* except (ValueError, AttributeError): return (9999, 99)
parse_instar_except(t) ==
    IF t.raised \in {"ValueError", "AttributeError"}
    THEN [raised |-> "none", val |-> SENTINEL]
    ELSE t

parse_instar_outcome(label) == parse_instar_except(parse_instar_try(label))

parse_instar_label(label) == parse_instar_outcome(label).val

\* KeyLess taking equal keys for smaller, which makes the sort unstable
KeyLess_or_equal(a, b) == a[1] < b[1] \/ (a[1] = b[1] /\ a[2] <= b[2])

\* tuple comparison of two (year, month) keys
KeyLess(a, b) == a[1] < b[1] \/ (a[1] = b[1] /\ a[2] < b[2])

\* sorted(values, key=...): stable; items are <<key, value>> pairs, each inserted
\* after the last item whose key is not greater
RECURSIVE SortedInsert(_, _)
SortedInsert(sortedItems, item) ==
    IF sortedItems = <<>> THEN <<item>>
    ELSE IF KeyLess(item[1], Head(sortedItems)[1]) THEN <<item>> \o sortedItems
    ELSE <<Head(sortedItems)>> \o SortedInsert(Tail(sortedItems), item)

RECURSIVE SortedFrom(_, _)
SortedFrom(items, acc) ==
    IF items = <<>> THEN acc
    ELSE SortedFrom(Tail(items), SortedInsert(acc, Head(items)))

Undecorate(items) == [i \in DOMAIN items |-> items[i][2]]

\* Sorted leaving the values in the order given
Sorted_as_given(values, keys) == values

\* values sorted by keys, keys[i] being the key of values[i]
Sorted(values, keys) ==
    Undecorate(SortedFrom([i \in DOMAIN values |-> <<keys[i], values[i]>>], <<>>))

sort_instar_deduped(deduped) ==
    Sorted(deduped, [i \in DOMAIN deduped |-> parse_instar_label(deduped[i])])

sort_instar_months(months) == sort_instar_deduped(dedupe_preserve_order(months))

\* return f"{year} {month_num:02d} {abbr}"
format_admedia_emit(parts, month_num) ==
    parts[1] \o SP \o Fmt02d(month_num) \o SP \o
        (IF Len(parts) > 2 THEN parts[3]
         ELSE MONTH_NUM_TO_ABBR(month_num, Fmt02d(month_num)))

\* format_admedia_month with a month that fails int() taken as 0
format_admedia_month_default(stripped, parts, m) ==
    format_admedia_emit(parts, IF m.ok THEN m.val ELSE 0)

\* except (IndexError, ValueError): return value.strip()
format_admedia_month(stripped, parts, m) ==
    IF ~m.ok THEN stripped ELSE format_admedia_emit(parts, m.val)

\* month_num = int(parts[1]) if len(parts) > 1 else 0
format_admedia_parts(stripped, parts) ==
    IF parts = <<>> THEN stripped
    ELSE format_admedia_month(stripped, parts,
                              IF Len(parts) > 1 THEN PyInt(parts[2])
                              ELSE [ok |-> TRUE, val |-> 0])

format_admedia_stored(value) ==
    format_admedia_parts(Strip(value), SplitWs(Replace(Strip(value), "-", " ")))

parse_admedia_ints(year, month_num) ==
    IF year.ok /\ month_num.ok THEN <<year.val, month_num.val>> ELSE SENTINEL

\* IndexError (fewer than two parts) and ValueError give the sentinel
parse_admedia_parts(parts) ==
    IF Len(parts) < 2 THEN SENTINEL
    ELSE parse_admedia_ints(PyInt(parts[1]), PyInt(parts[2]))

parse_admedia_stored(value) == parse_admedia_parts(SplitWs(format_admedia_stored(value)))

sort_admedia_deduped(deduped) ==
    Sorted(deduped, [i \in DOMAIN deduped |-> parse_admedia_stored(deduped[i])])

sort_admedia_months(months) ==
    sort_admedia_deduped(
        dedupe_preserve_order([i \in DOMAIN months |-> format_admedia_stored(months[i])]))

label_to_stored_emit(raw, year, month_abbr, month_num) ==
    IF month_num = 0 THEN format_admedia_stored(raw)
    ELSE year \o SP \o Fmt02d(month_num) \o SP \o month_abbr

label_to_stored_lookup(raw, year, month_abbr) ==
    label_to_stored_emit(raw, year, month_abbr, MONTHS_ABBR_GET(month_abbr))

\* month_abbr, year = raw.split("/"): other than two fields raises ValueError
label_to_stored_fields(raw, parts) ==
    IF Len(parts) # 2 THEN format_admedia_stored(raw)
    ELSE label_to_stored_lookup(raw, Strip(parts[2]), Capitalize(Strip(parts[1])))

label_to_stored_raw(raw) ==
    IF ~Contains(raw, "/") THEN format_admedia_stored(raw)
    ELSE label_to_stored_fields(raw, Split(raw, "/"))

admedia_label_to_stored(label) == label_to_stored_raw(Strip(label))

\* stored_to_label_month giving the month number where the abbreviation belongs
stored_to_label_month_numeric(stripped, parts, m) ==
    IF ~m.ok THEN stripped ELSE parts[2] \o SLASH \o parts[1]

stored_to_label_month(stripped, parts, m) ==
    IF ~m.ok THEN stripped
    ELSE (IF Len(parts) > 2 THEN parts[3] ELSE MONTH_NUM_TO_ABBR(m.val, parts[2]))
         \o SLASH \o parts[1]

stored_to_label_parts(stripped, parts) ==
    IF Len(parts) < 2 THEN stripped
    ELSE stored_to_label_month(stripped, parts, PyInt(parts[2]))

admedia_stored_to_label(value) ==
    stored_to_label_parts(Strip(value), SplitWs(format_admedia_stored(value)))

normalize_admedia_value(raw) ==
    IF Contains(raw, "/") THEN admedia_label_to_stored(raw) ELSE format_admedia_stored(raw)

\* one turn of the loop of normalize_admedia_months, raw being value.strip()
normalize_admedia_step(raw, normalized) ==
    IF raw = <<>> THEN normalized ELSE Append(normalized, normalize_admedia_value(raw))

RECURSIVE normalize_admedia_from(_, _)
normalize_admedia_from(months, normalized) ==
    IF months = <<>> THEN normalized
    ELSE normalize_admedia_from(Tail(months),
                                normalize_admedia_step(Strip(Head(months)), normalized))

\* normalize_admedia_months without the final dedupe
normalize_admedia_months_no_dedupe(months) == normalize_admedia_from(months, <<>>)

normalize_admedia_months(months) == dedupe_preserve_order(normalize_admedia_from(months, <<>>))

\* one turn of the loop of normalize_instar_months, raw being value.strip()
normalize_instar_step(raw, normalized) ==
    IF raw # <<>> THEN Append(normalized, raw) ELSE normalized

RECURSIVE normalize_instar_from(_, _)
normalize_instar_from(months, normalized) ==
    IF months = <<>> THEN normalized
    ELSE normalize_instar_from(Tail(months),
                               normalize_instar_step(Strip(Head(months)), normalized))

normalize_instar_months(months) == dedupe_preserve_order(normalize_instar_from(months, <<>>))

(***************************************************************************)
(* app/services/bigquery_service.py: table reference validation            *)
(***************************************************************************)
\* [A-Za-z0-9\-]
ProjectChar(c) == IsAlnum(c) \/ c = "-"

\* [A-Za-z0-9_]
DatasetChar(c) == IsAlnum(c) \/ c = "_"

\* [A-Za-z0-9_\$]
TableChar(c) == IsAlnum(c) \/ c = "_" \/ c = "$"

\* TablePatternFull with one character class, [A-Za-z0-9_\-\$], for all three names
TablePatternFull_one_class(s) ==
    \E i, j \in DOMAIN s :
        /\ 1 < i /\ i + 1 < j /\ j < Len(s)
        /\ s[i] = "." /\ s[j] = "."
        /\ \A k \in (1..(i - 1)) \cup ((i + 1)..(j - 1)) \cup ((j + 1)..Len(s)) :
              ProjectChar(s[k]) \/ TableChar(s[k])

\* ^[A-Za-z0-9\-]+\.[A-Za-z0-9_]+\.[A-Za-z0-9_\$]+ consuming the whole of s
TablePatternFull(s) ==
    \E i, j \in DOMAIN s :
        /\ 1 < i /\ i + 1 < j /\ j < Len(s)
        /\ s[i] = "." /\ s[j] = "."
        /\ \A k \in 1..(i - 1) : ProjectChar(s[k])
        /\ \A k \in (i + 1)..(j - 1) : DatasetChar(s[k])
        /\ \A k \in (j + 1)..Len(s) : TableChar(s[k])

\* _TABLE_PATTERN.match(s): the final $ also matches before one trailing newline
TABLE_PATTERN_match(s) ==
    \/ TablePatternFull(s)
    \/ s # <<>> /\ s[Len(s)] = "\n" /\ TablePatternFull(SubSeq(s, 1, Len(s) - 1))

validate_candidate(candidate) ==
    IF ~TABLE_PATTERN_match(candidate)
    THEN [raised |-> "BigQueryServiceError", val |-> <<>>]
    ELSE [raised |-> "none", val |-> candidate]

\* returns the candidate, or raises BigQueryServiceError
validate_table_reference(table) == validate_candidate(Strip(table))

(***************************************************************************)
(* app/config.py and app/services/bigquery_service.py: the facade.         *)
(*                                                                         *)
(* A method's outcome is [raised, why, val, calls, client]: the exception  *)
(* raised ("none" when it returns), what raised it, the value returned,    *)
(* the Table Store calls issued in order, and the cached client after it.  *)
(* env holds what the Table Store answers: the rows of a SELECT DISTINCT,  *)
(* the schema's columns, the affected-row count, and which store call (if  *)
(* any) fails with GoogleAPICallError.                                     *)
(***************************************************************************)
\* None, and the empty string, which `or` / `if not` treat alike
NONE == <<>>

INSTAR_DATASET == <<"b","a","y","e","r">>

INSTAR_TABLE == <<"i","n","s","t","a","r","_","h","i","s","t","o","r","i","c","o">>

INSTAR_MONTH_COLUMN == "Mes_Anio"

ADMEDIA_DATASET == <<"b","a","y","e","r">>

ADMEDIA_TABLE == <<"a","d","m","e","d","i","a","_","h","i","s","t","o","r","i","c","o">>

ADMEDIA_MONTH_COLUMN == "Mes"

DOT == <<".">>

Out(raised, why, val, calls, client) ==
    [raised |-> raised, why |-> why, val |-> val, calls |-> calls, client |-> client]

ServiceError(why, calls, client) == Out("BigQueryServiceError", why, <<>>, calls, client)

\* TableConfig.fq_table
fq_table(config) == config.project_id \o DOT \o config.dataset \o DOT \o config.table

resolve_project_id(settings, specific) ==
    LET project_id == IF specific # NONE THEN specific ELSE settings.bigquery_project_id
    IN  IF project_id = NONE
        THEN [raised |-> "BigQueryServiceError", val |-> NONE]
        ELSE [raised |-> "none", val |-> project_id]

\* instar_config() / admedia_config(): _build_table_config over the family's settings
build_table_config(settings, family) ==
    LET p == resolve_project_id(settings,
                 IF family = "instar" THEN settings.instar_project_id
                 ELSE settings.admedia_project_id)
    IN  [raised |-> p.raised,
         val |-> [project_id |-> p.val,
                  dataset |-> IF family = "instar" THEN INSTAR_DATASET ELSE ADMEDIA_DATASET,
                  table |-> IF family = "instar" THEN INSTAR_TABLE ELSE ADMEDIA_TABLE,
                  month_column |-> IF family = "instar" THEN INSTAR_MONTH_COLUMN
                                   ELSE ADMEDIA_MONTH_COLUMN]]

\* _get_client: the cached client, or one built from the settings
get_client(settings, client) ==
    IF client = "built" THEN [raised |-> "none", why |-> "", client |-> client]
    ELSE IF settings.credentials = "unreadable"
    THEN [raised |-> "BigQueryServiceError", why |-> "credentials", client |-> client]
    ELSE LET project_id ==
                 IF settings.bigquery_project_id # NONE THEN settings.bigquery_project_id
                 ELSE IF settings.credentials = "readable" THEN settings.credentials_project_id
                 ELSE NONE
         IN  IF project_id = NONE
             THEN [raised |-> "BigQueryServiceError", why |-> "project_id", client |-> client]
             ELSE [raised |-> "none", why |-> "", client |-> "built"]

\* a call of the Table Store: client.query(...) or client.get_table(...)
StoreCall(api, stmt, table, source, filtered, months) ==
    [api |-> api, stmt |-> stmt, table |-> table, source |-> source,
     filtered |-> filtered, months |-> months]

\* client = self._get_client(), then one call of the Table Store whose
\* GoogleAPICallError is re-raised as BigQueryServiceError
run_store_call(g, q, failed, val) ==
    IF g.raised # "none" THEN ServiceError(g.why, <<>>, g.client)
    ELSE IF failed THEN ServiceError("store", <<q>>, g.client)
    ELSE Out("none", "", val, <<q>>, g.client)

_fetch_distinct_months(settings, client, config, env) ==
    run_store_call(get_client(settings, client),
                   StoreCall("query", "SELECT DISTINCT", fq_table(config), NONE, FALSE, <<>>),
                   env.fail = 1, env.rows)

\* config = self.instar_config() / self.admedia_config(), then _fetch_distinct_months
fetch_with_config(settings, client, c, env) ==
    IF c.raised # "none" THEN ServiceError("project_id", <<>>, client)
    ELSE _fetch_distinct_months(settings, client, c.val, env)

fetch_raw_values(settings, client, family, env) ==
    fetch_with_config(settings, client, build_table_config(settings, family), env)

IsStr(value) == value.type = "str"

\* the text of each value: the value itself for a string, str(value) otherwise
Texts(values) == [i \in DOMAIN values |-> values[i].s]

\* filtered = [value for value in raw_values if isinstance(value, str)]
fetch_instar_sorted(r) ==
    IF r.raised # "none" THEN r
    ELSE Out("none", "", sort_instar_months(Texts(SelectSeq(r.val, IsStr))), r.calls, r.client)

fetch_instar_months(settings, client, env) ==
    fetch_instar_sorted(fetch_raw_values(settings, client, "instar", env))

\* normalized = normalize_admedia_months(str(value) for value in raw_values)
fetch_admedia_sorted(r) ==
    IF r.raised # "none" THEN r
    ELSE Out("none", "", sort_admedia_months(normalize_admedia_months(Texts(r.val))),
             r.calls, r.client)

fetch_admedia_months(settings, client, env) ==
    fetch_admedia_sorted(fetch_raw_values(settings, client, "admedia", env))

\* _delete_months asking for the client before looking at months
delete_months_client_first(settings, client, config, months, env) ==
    LET g == get_client(settings, client) IN
    IF g.raised # "none" THEN ServiceError(g.why, <<>>, g.client)
    ELSE IF months = <<>> THEN Out("none", "", 0, <<>>, g.client)
    ELSE run_store_call(g, StoreCall("query", "DELETE", fq_table(config), NONE, TRUE, months),
                        env.fail = 1, env.affected)

_delete_months(settings, client, config, months, env) ==
    IF months = <<>> THEN Out("none", "", 0, <<>>, client)
    ELSE run_store_call(get_client(settings, client),
                        StoreCall("query", "DELETE", fq_table(config), NONE, TRUE, months),
                        env.fail = 1, env.affected)

normalize_months(dataset_type, months) ==
    IF dataset_type = "admedia" THEN normalize_admedia_months(months)
    ELSE normalize_instar_months(months)

delete_with_config(settings, client, c, months, env) ==
    IF c.raised # "none" THEN ServiceError("project_id", <<>>, client)
    ELSE _delete_months(settings, client, c.val, months, env)

\* delete_instar_months / delete_admedia_months
delete_family_months(settings, client, family, months, env) ==
    delete_with_config(settings, client, build_table_config(settings, family),
                       normalize_months(family, months), env)

\* the INSERT ... SELECT * of append_rows, WHERE added only if normalized_months
append_insert(settings, client, source, destination, normalized_months, env) ==
    run_store_call(get_client(settings, client),
                   StoreCall("query", "INSERT", destination, source,
                             normalized_months # <<>>, normalized_months),
                   env.fail = 1, env.affected)

append_validated(settings, client, source, destination, months, dataset_type, env) ==
    IF source.raised # "none" \/ destination.raised # "none"
    THEN ServiceError("table_reference", <<>>, client)
    ELSE append_insert(settings, client, source.val, destination.val,
                       IF months # <<>> THEN normalize_months(dataset_type, months) ELSE <<>>,
                       env)

append_rows(settings, client, source_table, destination_table, month_column, months, dataset_type, env) ==
    append_validated(settings, client, validate_table_reference(source_table),
                     validate_table_reference(destination_table), months, dataset_type, env)

\* client.get_table(candidate) of list_columns, get_table_schema and get_table_info
get_table(settings, client, candidate, failed, val) ==
    IF candidate.raised # "none" THEN ServiceError("table_reference", <<>>, client)
    ELSE run_store_call(get_client(settings, client),
                        StoreCall("get_table", "", candidate.val, NONE, FALSE, <<>>),
                        failed, val)

\* list_columns; get_table_schema is the same with the whole fields returned
list_columns(settings, client, table, env, nth) ==
    get_table(settings, client, validate_table_reference(table), env.fail = nth, env.columns)

get_table_info(settings, client, table, env) ==
    get_table(settings, client, validate_table_reference(table), env.fail = 1, env.affected)

\* export_rows from the column check on: cols is what list_columns gave, q the SELECT
export_selected(cols, q, selected_columns, env) ==
    IF cols.raised # "none" THEN cols
    ELSE IF selected_columns # <<>>
            /\ \E i \in DOMAIN selected_columns : selected_columns[i] \notin Range(cols.val)
    THEN ServiceError("unknown_column", cols.calls, cols.client)
    ELSE IF env.fail = 2 THEN ServiceError("store", cols.calls \o <<q>>, cols.client)
    ELSE Out("none", "",
             <<IF selected_columns # <<>> THEN selected_columns ELSE cols.val, env.rows>>,
             cols.calls \o <<q>>, cols.client)

\* export_rows from client = self._get_client() on
export_with_client(settings, g, config, months, dataset_type, selected_columns, env) ==
    IF g.raised # "none" THEN ServiceError(g.why, <<>>, g.client)
    ELSE export_selected(list_columns(settings, g.client, fq_table(config), env, 1),
                         StoreCall("query", "SELECT", fq_table(config), NONE, TRUE,
                                   normalize_months(dataset_type, months)),
                         selected_columns, env)

\* export_rows building the client and reading the schema before looking at months
export_rows_months_checked_late(settings, client, config, months, dataset_type, selected_columns, env) ==
    LET g == get_client(settings, client)
        cols == list_columns(settings, g.client, fq_table(config), env, 1)
    IN  IF months # <<>>
        THEN export_with_client(settings, g, config, months, dataset_type,
                                selected_columns, env)
        ELSE IF g.raised # "none" THEN ServiceError(g.why, <<>>, g.client)
        ELSE IF cols.raised # "none" THEN cols
        ELSE ServiceError("empty_months", cols.calls, cols.client)

export_rows(settings, client, config, months, dataset_type, selected_columns, env) ==
    IF months = <<>> THEN ServiceError("empty_months", <<>>, client)
    ELSE export_with_client(settings, get_client(settings, client), config, months,
                            dataset_type, selected_columns, env)

(***************************************************************************)
(* State.  call/ret/gen: the last call of a pure function, its result and  *)
(* the way its argument was put together.                                  *)
(***************************************************************************)
VARIABLES call, ret, gen

(***************************************************************************)
(* settings: the process configuration.  client: BigQueryService._client,  *)
(* "none" until first built.  request: the method call or HTTP request     *)
(* being served ("idle" between two).  result: the outcome of the facade   *)
(* method it ran.  response: the HTTP status answered (0: no HTTP answer). *)
(***************************************************************************)
VARIABLES settings, client, request, result, response

pureVars == <<call, ret, gen>>

(***************************************************************************)
(* tables: the tables of the instar dataset in the Table Store, by name:   *)
(* whether present, and the import request whose load wrote it last (0: it *)
(* was there before any import).  imports: each import request's position  *)
(* in import_instar, its temporary table and the status it answers.        *)
(***************************************************************************)
VARIABLES tables, imports

svcVars == <<settings, client, request, result, response>>

impVars == <<tables, imports>>

vars == <<call, ret, gen, settings, client, request, result, response, tables, imports>>

(***************************************************************************)
(* Arguments the pure functions are applied to.                            *)
(***************************************************************************)
\* spellings of a name in other letter cases
CaseVariants(s) ==
    { s, Lower(s), Upper(s),
      [i \in DOMAIN s |-> IF i = 1 THEN ToLower(s[i]) ELSE ToUpper(s[i])] }

Pads == { <<>>, <<" ">> }

\* year texts int() accepts, with the integer each denotes
YearsOk ==
    { [s |-> <<"2","0","2","4">>, v |-> 2024], [s |-> <<"1","9","9","9">>, v |-> 1999],
      [s |-> <<"0">>, v |-> 0], [s |-> <<"-","5">>, v |-> 0 - 5],
      [s |-> <<"+","7">>, v |-> 7], [s |-> <<" ","2","0","2","4"," ">>, v |-> 2024],
      [s |-> <<"2","_","0">>, v |-> 20], [s |-> <<"0","0","7">>, v |-> 7],
      [s |-> <<"9","9","9","9">>, v |-> 9999], [s |-> <<"1","2","3","4","5">>, v |-> 12345] }

\* year texts int() rejects
YearsBad ==
    { <<>>, <<" ">>, <<"2","0","a">>, <<"2"," ","0">>, <<"_","1">>, <<"1","_">>,
      <<"1","_","_","0">>, <<"2",".","5">>, <<"+">>, <<"-","-","1">>, <<"M","M","X","X">> }

\* texts that are no full month name in any letter case
NamesBad ==
    { <<>>, <<"M","a","r","z">>, <<"M","a","r">>, <<"E","n","e","r","o","o">>, <<"S","e","t","i","e","m","b","r","e">>, <<"3">>, <<"M","a","y","o","1">>, <<"M"," ","a","y","o">> }

InstarCasesOf(m) ==
    {[kind |-> "valid", m |-> m, y |-> y.v, s |-> lead \o n \o mid \o SLASH \o y.s] :
        n \in CaseVariants(MONTHS_FULL[m]), lead \in Pads, mid \in Pads, y \in YearsOk}
    \cup
    {[kind |-> "badyear", m |-> m, y |-> 0, s |-> n \o SLASH \o y] :
        n \in CaseVariants(MONTHS_FULL[m]), y \in YearsBad}
    \cup
    {[kind |-> "noslash", m |-> m, y |-> y.v, s |-> MONTHS_FULL[m] \o sep \o y.s] :
        sep \in {<<>>, <<" ">>, <<"-">>, <<"\\">>}, y \in YearsOk}
    \cup
    {[kind |-> "extraslash", m |-> m, y |-> y.v, s |-> x[1] \o MONTHS_FULL[m] \o x[2] \o y.s \o x[3]] :
        y \in YearsOk,
        x \in { <<SLASH, SLASH, <<>>>>, <<<<>>, SLASH \o SLASH, <<>>>>,
                <<<<>>, SLASH, SLASH>>, <<<<>>, SLASH, SLASH \o <<"1">>>> }}

InstarCases ==
    UNION { InstarCasesOf(m) : m \in DOMAIN MONTHS_FULL }
    \cup
    {[kind |-> "badname", m |-> 0, y |-> y.v, s |-> n \o SLASH \o y.s] :
        n \in NamesBad, y \in YearsOk}

IDLE == [layer |-> "none", op |-> "idle"]

NOT_CALLED == Out("not called", "", <<>>, <<>>, "none")

NO_SETTINGS ==
    [bigquery_project_id |-> NONE, instar_project_id |-> NONE, admedia_project_id |-> NONE,
     credentials |-> "unset", credentials_project_id |-> NONE]

\* sequences over S of exactly n elements
RECURSIVE SeqsOfLen(_, _)
SeqsOfLen(S, n) ==
    IF n = 0 THEN {<<>>}
    ELSE {Append(q, x) : q \in SeqsOfLen(S, n - 1), x \in S}

MaxParts == 4

\* second parts, with whether int() accepts the text and the integer it denotes
MonthToks ==
    { [s |-> <<"3">>, int |-> TRUE, v |-> 3], [s |-> <<"0","3">>, int |-> TRUE, v |-> 3],
      [s |-> <<"1","2">>, int |-> TRUE, v |-> 12], [s |-> <<"1","3">>, int |-> TRUE, v |-> 13],
      [s |-> <<"0">>, int |-> TRUE, v |-> 0], [s |-> <<"+","3">>, int |-> TRUE, v |-> 3],
      [s |-> <<"1","_","1">>, int |-> TRUE, v |-> 11],
      [s |-> <<"1","2","3">>, int |-> TRUE, v |-> 123],
      [s |-> <<"M","a","r">>, int |-> FALSE, v |-> 0], [s |-> <<"x">>, int |-> FALSE, v |-> 0],
      [s |-> <<"3","a">>, int |-> FALSE, v |-> 0], [s |-> <<"_","3">>, int |-> FALSE, v |-> 0],
      [s |-> <<"3",".","0">>, int |-> FALSE, v |-> 0],
      [s |-> <<"M","a","r","/","2","0","2","4">>, int |-> FALSE, v |-> 0] }

YearToks == { <<"2","0","2","4">>, <<"2","4">>, <<"x">>, <<"M","a","r","/","2","0","2","4">> }

AbbrToks == { <<"M","a","r">>, <<"E","n","e">>, <<"z","z">>, <<"0","5">> }

ExtraTok == <<"x","y">>

\* the parts of an admedia value: year, month, abbreviation, then ignored extras
AdmediaParts ==
    {[parts |-> <<>>, int |-> TRUE, v |-> 0]}
    \cup {[parts |-> <<y>>, int |-> TRUE, v |-> 0] : y \in YearToks}
    \cup {[parts |-> <<y, m.s>>, int |-> m.int, v |-> m.v] : y \in YearToks, m \in MonthToks}
    \cup {[parts |-> <<y, m.s, a>> \o [i \in 1..n |-> ExtraTok], int |-> m.int, v |-> m.v] :
            y \in YearToks, m \in MonthToks, a \in AbbrToks, n \in 0..(MaxParts - 3)}

\* the value: parts joined by one kind of separator, behind an optional leading dash,
\* inside optional surrounding whitespace; core is the value without that whitespace
FormatCases ==
    {[parts |-> p.parts, int |-> p.int, v |-> p.v,
      core |-> dash \o Join(p.parts, sep), s |-> ws[1] \o dash \o Join(p.parts, sep) \o ws[2]] :
        p \in AdmediaParts, sep \in {<<" ">>, <<"-">>, <<" ","\t","-"," ">>},
        dash \in {<<>>, <<"-">>}, ws \in {<< <<>>, <<>> >>, << <<" ">>, <<"\t"," ">> >>}}

MaxSegments == 4

Segments ==
    { <<"p","r","o","j","-","1">>, <<"d","s","_","2">>, <<"t","b","l","$","2","0","2","4","0","1","0","1">>, <<"d","s">>, <<"t","b","l">>, <<"p","r","o","j"," ","1">>, <<"p","r","o","j",";","d","r","o","p">>, <<>> }

ReferenceCases ==
    {[segs |-> q, s |-> ws[1] \o Join(q, <<".">>) \o ws[2]] :
        q \in UNION {SeqsOfLen(Segments, n) : n \in 1..MaxSegments},
        ws \in {<< <<>>, <<>> >>, << <<" ">>, <<>> >>, << <<>>, <<" ","\n">> >>}}

PENDING == [raised |-> "pending", val |-> <<>>]

\* The calls made: one function applied to one argument of its case set
InitPure ==
    /\ ret = PENDING
    /\ settings = NO_SETTINGS /\ client = "none"
    /\ request = IDLE /\ result = NOT_CALLED /\ response = 0
    /\ tables = <<>> /\ imports = <<>>
    /\ \/ \E c \in InstarCases :
             /\ call = [fn |-> "parse_instar_label", arg |-> c.s]
             /\ gen = [kind |-> c.kind, m |-> c.m, y |-> c.y]
       \/ \E c \in FormatCases :
             /\ call = [fn |-> "format_admedia_stored", arg |-> c.s]
             /\ gen = [parts |-> c.parts, int |-> c.int, v |-> c.v, core |-> c.core]
       \/ \E c \in ReferenceCases :
             /\ call = [fn |-> "_validate_table_reference", arg |-> c.s]
             /\ gen = [segs |-> c.segs]

ParseInstarLabel ==
    /\ call.fn = "parse_instar_label" /\ ret = PENDING
    /\ ret' = parse_instar_outcome(call.arg)
    /\ UNCHANGED <<call, gen>>
    /\ UNCHANGED <<svcVars, impVars>>

FormatAdmediaStored ==
    /\ call.fn = "format_admedia_stored" /\ ret = PENDING
    /\ ret' = [raised |-> "none", val |-> format_admedia_stored(call.arg)]
    /\ UNCHANGED <<call, gen>>
    /\ UNCHANGED <<svcVars, impVars>>

ValidateTableReference ==
    /\ call.fn = "_validate_table_reference" /\ ret = PENDING
    /\ ret' = validate_table_reference(call.arg)
    /\ UNCHANGED <<call, gen>>
    /\ UNCHANGED <<svcVars, impVars>>

NextPure ==
    \/ ParseInstarLabel
    \/ FormatAdmediaStored
    \/ ValidateTableReference

SpecPure == InitPure /\ [][NextPure]_vars

(***************************************************************************)
(* The facade and the HTTP handlers over it (app/main.py).  A handler runs *)
(* to completion before the next request is taken: the handlers are async  *)
(* functions that never await once the request is parsed.                  *)
(***************************************************************************)
PROJ == <<"p","r","o","j","-","1">>

\* the environments the process is started in
SettingsCases ==
    { NO_SETTINGS,
      [NO_SETTINGS EXCEPT !.bigquery_project_id = PROJ],
      [NO_SETTINGS EXCEPT !.instar_project_id = PROJ],
      [NO_SETTINGS EXCEPT !.admedia_project_id = PROJ, !.credentials = "readable",
                          !.credentials_project_id = PROJ],
      [NO_SETTINGS EXCEPT !.bigquery_project_id = PROJ, !.credentials = "unreadable"],
      [NO_SETTINGS EXCEPT !.instar_project_id = PROJ, !.admedia_project_id = PROJ,
                          !.credentials = "readable", !.credentials_project_id = PROJ] }

Families == {"instar", "admedia"}

MaxMonths == 2

MaxRows == 3

\* sequences over S of at most n elements
SeqsUpTo(S, n) == UNION {SeqsOfLen(S, k) : k \in 0..n}

\* month texts a caller sends
MonthPool(family) ==
    IF family = "instar"
    THEN { <<"M","a","r","z","o","/","2","0","2","4">>, <<" ","E","n","e","r","o","/","2","0","2","3">>, <<" ">> }
    ELSE { <<"M","a","r","/","2","0","2","4">>, <<"2","0","2","4"," ","0","3"," ","M","a","r">>, <<" ">> }

MonthLists(family) == SeqsUpTo(MonthPool(family), MaxMonths)

\* values of the month column: strings, and values of other types with their str()
ColumnPool(family) ==
    (IF family = "instar"
     THEN { [type |-> "str", s |-> <<"M","a","r","z","o","/","2","0","2","4">>], [type |-> "str", s |-> <<"E","n","e","r","o","/","2","0","2","3">>],
            [type |-> "str", s |-> <<"e","n","e","r","o","/","2","0","2","4">>] }
     ELSE { [type |-> "str", s |-> <<"2","0","2","4"," ","0","3"," ","M","a","r">>], [type |-> "str", s |-> <<"2","0","2","3","-","1","1">>],
            [type |-> "str", s |-> <<"E","n","e","/","2","0","2","4">>] })
    \cup { [type |-> "str", s |-> <<"n","/","a">>],
           [type |-> "int", s |-> <<"2","0","2","4","0","3">>],
           [type |-> "date", s |-> <<"2","0","2","4","-","0","3","-","0","1">>] }

\* SELECT DISTINCT answers: distinct values in any order
DistinctRows(family) ==
    {q \in SeqsUpTo(ColumnPool(family), MaxRows) :
        \A i, j \in DOMAIN q : i # j => q[i] # q[j]}

SCHEMA_COLUMNS == <<"A", "B", "C">>

Env(rows, fail) == [rows |-> rows, columns |-> SCHEMA_COLUMNS, affected |-> 5, fail |-> fail]

SOURCE_REFS == { <<"p","r","o","j","-","1",".","b","a","y","e","r",".","t","m","p","_","1">>, <<"p","r","o","j"," ","1",".","d","s",".","t","b","l">> }

DESTINATION_REFS == { <<"p","r","o","j","-","1",".","b","a","y","e","r",".","i","n","s","t","a","r","_","h","i","s","t","o","r","i","c","o">>, <<"p","r","o","j",";","d","r","o","p",".","d","s",".","t","b","l">> }

COLUMN_CHOICES == { <<>>, <<"A">>, <<"C", "A">>, <<"A", "Z">> }

InitService ==
    /\ call = [fn |-> "none", arg |-> <<>>] /\ ret = PENDING /\ gen = [kind |-> "none"]
    /\ settings \in SettingsCases
    /\ client = "none"
    /\ request = IDLE /\ result = NOT_CALLED /\ response = 0
    /\ tables = <<>> /\ imports = <<>>

\* exception handlers of the app: BigQueryServiceError -> 500
StatusOf(outcome) == IF outcome.raised = "none" THEN 200 ELSE 500

\* the answer of a handler that ran a facade method
Respond(outcome) == [status |-> StatusOf(outcome), outcome |-> outcome]

\* the answer of a request refused before any facade method ran
Reject(status, cached) == [status |-> status, outcome |-> [NOT_CALLED EXCEPT !.client = cached]]

\* the outcome of a facade method called without the HTTP layer
Direct(outcome) == [status |-> 0, outcome |-> outcome]

Serve(req, answer) ==
    /\ request' = req
    /\ result' = answer.outcome
    /\ client' = answer.outcome.client
    /\ response' = answer.status
    /\ UNCHANGED <<settings, call, ret, gen, impVars>>

list_months(cached, family, env) ==
    Respond(IF family = "instar" THEN fetch_instar_months(settings, cached, env)
            ELSE fetch_admedia_months(settings, cached, env))

\* GET /api/instar/meses, GET /api/admedia/meses
HttpListMonths ==
    /\ request = IDLE
    /\ \E family \in Families, fail \in 0..1 : \E rows \in DistinctRows(family) :
           Serve([layer |-> "http", cached |-> client, op |-> "list_months", family |-> family,
                  env |-> Env(rows, fail)],
                 list_months(client, family, Env(rows, fail)))

\* DeleteMonthsRequest wants min_items=1
delete_months(cached, family, months, env) ==
    IF Len(months) < 1 THEN Reject(422, cached)
    ELSE Respond(delete_family_months(settings, cached, family, months, env))

\* DELETE /api/instar, DELETE /api/admedia
HttpDeleteMonths ==
    /\ request = IDLE
    /\ \E family \in Families, fail \in 0..1 : \E months \in MonthLists(family) :
           Serve([layer |-> "http", cached |-> client, op |-> "delete_months", family |-> family,
                  months |-> months, env |-> Env(<<>>, fail)],
                 delete_months(client, family, months, Env(<<>>, fail)))

\* BigQueryService.delete_instar_months / delete_admedia_months called directly
SvcDeleteMonths ==
    /\ request = IDLE
    /\ \E family \in Families, fail \in 0..1 : \E months \in MonthLists(family) :
           Serve([layer |-> "service", cached |-> client, op |-> "delete_months", family |-> family,
                  months |-> months, env |-> Env(<<>>, fail)],
                 Direct(delete_family_months(settings, client, family, months,
                                             Env(<<>>, fail))))

\* config = service.instar_config(), then service.append_rows(...)
append_with_config(cached, c, source, destination, months, family, env) ==
    IF c.raised # "none" THEN ServiceError("project_id", <<>>, cached)
    ELSE append_rows(settings, cached, source, destination, c.val.month_column, months,
                     family, env)

append(cached, family, source, destination, months, env) ==
    Respond(append_with_config(cached, build_table_config(settings, family), source,
                               destination, months, family, env))

\* POST /api/instar/append, POST /api/admedia/append
HttpAppend ==
    /\ request = IDLE
    /\ \E family \in Families, fail \in 0..1, source \in SOURCE_REFS,
          destination \in DESTINATION_REFS :
         \E months \in MonthLists(family) :
           Serve([layer |-> "http", cached |-> client, op |-> "append_rows", family |-> family,
                  source |-> source, destination |-> destination, months |-> months,
                  env |-> Env(<<>>, fail)],
                 append(client, family, source, destination, months, Env(<<>>, fail)))

\* POST /api/table/info
HttpTableInfo ==
    /\ request = IDLE
    /\ \E fail \in 0..1, table \in SOURCE_REFS :
           Serve([layer |-> "http", cached |-> client, op |-> "table_info", table |-> table,
                  env |-> Env(<<>>, fail)],
                 Respond(get_table_info(settings, client, table, Env(<<>>, fail))))

\* config = service.instar_config() / admedia_config(), then service.export_rows(...)
export_with_config(cached, c, months, family, selected_columns, env) ==
    IF c.raised # "none" THEN ServiceError("project_id", <<>>, cached)
    ELSE export_rows(settings, cached, c.val, months, family, selected_columns, env)

\* ExportRequest wants 1 to 3 months; the handler wants columns or include_all_columns
export_data(cached, family, months, include_all_columns, columns, env) ==
    IF Len(months) < 1 \/ Len(months) > 3 THEN Reject(422, cached)
    ELSE IF ~include_all_columns /\ columns = <<>> THEN Reject(400, cached)
    ELSE Respond(export_with_config(cached, build_table_config(settings, family), months,
                                    family, IF include_all_columns THEN <<>> ELSE columns,
                                    env))

\* POST /api/export
HttpExport ==
    /\ request = IDLE
    /\ \E family \in Families, fail \in 0..2, include_all_columns \in BOOLEAN,
          columns \in COLUMN_CHOICES :
         \E months \in MonthLists(family) :
           Serve([layer |-> "http", cached |-> client, op |-> "export_rows", family |-> family,
                  months |-> months, include_all_columns |-> include_all_columns,
                  columns |-> columns, env |-> Env(<<>>, fail)],
                 export_data(client, family, months, include_all_columns, columns,
                             Env(<<>>, fail)))

\* a TableConfig of the family under the project PROJ
ConfigOf(family) ==
    [project_id |-> PROJ,
     dataset |-> IF family = "instar" THEN INSTAR_DATASET ELSE ADMEDIA_DATASET,
     table |-> IF family = "instar" THEN INSTAR_TABLE ELSE ADMEDIA_TABLE,
     month_column |-> IF family = "instar" THEN INSTAR_MONTH_COLUMN ELSE ADMEDIA_MONTH_COLUMN]

\* BigQueryService.export_rows called directly with a TableConfig
SvcExportRows ==
    /\ request = IDLE
    /\ \E family \in Families, fail \in 0..2, selected_columns \in COLUMN_CHOICES :
         \E months \in MonthLists(family) :
           Serve([layer |-> "service", cached |-> client, op |-> "export_rows", family |-> family,
                  months |-> months, include_all_columns |-> selected_columns = <<>>,
                  columns |-> selected_columns, env |-> Env(<<>>, fail)],
                 Direct(export_rows(settings, client, ConfigOf(family), months, family,
                                    selected_columns, Env(<<>>, fail))))

\* the request is answered; the client it may have built stays
Finish ==
    /\ request # IDLE
    /\ request' = IDLE
    /\ result' = NOT_CALLED
    /\ response' = 0
    /\ UNCHANGED <<settings, client, call, ret, gen, impVars>>

NextService ==
    \/ HttpListMonths
    \/ HttpDeleteMonths
    \/ SvcDeleteMonths
    \/ HttpAppend
    \/ HttpTableInfo
    \/ HttpExport
    \/ SvcExportRows
    \/ Finish

SpecService == InitService /\ [][NextService]_vars

(***************************************************************************)
(* The month functions over labels, stored values and lists of them        *)
(* (app/utils/months.py).  Each behaviour is one argument and the calls    *)
(* made on it: a conversion and the conversion back, or a function and the *)
(* same function on its own result.                                        *)
(***************************************************************************)
MaxList == 3

\* the month number written with two digits
TwoDigits(m) == <<DIGITS[(m \div 10) + 1], DIGITS[(m % 10) + 1]>>

\* years written in digits
YearDigits == { <<"2","0","2","4">>, <<"1","9","9","9">>, <<"0","0","7">>, <<"1","2","3","4","5">> }

\* admedia labels "<Abbr>/<Year>"; a year with a sign is kept apart
LabelCases ==
    {[kind |-> "label", m |-> m, y |-> y, s |-> MONTHS_ABBR[m] \o SLASH \o y] :
        m \in DOMAIN MONTHS_ABBR, y \in YearDigits}
    \cup {[kind |-> "signed", m |-> m, y |-> y, s |-> MONTHS_ABBR[m] \o SLASH \o y] :
            m \in DOMAIN MONTHS_ABBR, y \in {<<"-","5">>, <<"+","7">>}}

\* the spellings of month m of year y: the label, the label in other letter cases,
\* the stored value, and the stored value without abbreviation or with dashes
Spellings(m, y) ==
    { MONTHS_ABBR[m] \o SLASH \o y,
      Lower(MONTHS_ABBR[m]) \o SLASH \o y,
      Upper(MONTHS_ABBR[m]) \o SLASH \o y,
      y \o SP \o TwoDigits(m) \o SP \o MONTHS_ABBR[m],
      y \o SP \o TwoDigits(m),
      y \o <<"-">> \o TwoDigits(m),
      y \o <<"-">> \o TwoDigits(m) \o <<"-">> \o MONTHS_ABBR[m] }

\* lists of spellings of one month
SpellingLists ==
    UNION {{[kind |-> "spellings", m |-> m, y |-> y, s |-> l] :
                l \in SeqsUpTo(Spellings(m, y), MaxList) \ {<<>>}} :
           m \in DOMAIN MONTHS_ABBR, y \in {<<"2","0","2","4">>}}

\* admedia values a caller may send, well formed or not
AdmediaPool ==
    { <<"M","a","r","/","2","0","2","4">>, <<"2","0","2","4"," ","0","3"," ","M","a","r">>,
      <<"2","0","2","3","-","1","1">>, <<"2","0","2","4">>, <<"2","0","2","4"," ","1","3">>,
      <<"1","0","0","0","0"," ","0","3"," ","M","a","r">>, <<"x"," ","y">>,
      <<"M","a","r","/">>, <<"M","a","r","/","2","0"," ","2","4">>,
      <<"M","a","r","/","2","0","-","2","4">>, <<" ">> }

\* instar values a caller may send, well formed or not
InstarPool ==
    { <<"M","a","r","z","o","/","2","0","2","4">>, <<"E","n","e","r","o","/","2","0","2","4">>,
      <<"m","a","r","z","o","/","2","0","2","4">>, <<"D","i","c","i","e","m","b","r","e","/","2","0","2","3">>,
      <<"M","a","r","z","o","/","1","0","0","0","0">>, <<"x">>, <<"M","a","r","z","o">> }

FIRST_CALL == [raised |-> "none", val |-> <<>>, prev |-> <<>>, n |-> 0]

\* the result of one more call: its value, the value before it, the calls so far
After(val) == [raised |-> "none", val |-> val, prev |-> ret.val, n |-> ret.n + 1]

\* what the next call is applied to: the argument, then the last result
Operand == IF ret.n = 0 THEN call.arg ELSE ret.val

InitMonths ==
    /\ ret = FIRST_CALL
    /\ settings = NO_SETTINGS /\ client = "none"
    /\ request = IDLE /\ result = NOT_CALLED /\ response = 0
    /\ tables = <<>> /\ imports = <<>>
    /\ \/ \E c \in LabelCases :
             /\ call = [fn |-> "admedia_label_to_stored", arg |-> c.s]
             /\ gen = [kind |-> c.kind, m |-> c.m, y |-> c.y]
       \/ \E c \in SpellingLists :
             /\ call = [fn |-> "normalize_admedia_months", arg |-> c.s]
             /\ gen = [kind |-> c.kind, m |-> c.m, y |-> c.y]
       \/ \E l \in SeqsUpTo(AdmediaPool, MaxList - 1) :
             /\ call = [fn |-> "normalize_admedia_months", arg |-> l]
             /\ gen = [kind |-> "any"]
       \/ \E l \in SeqsUpTo(InstarPool, MaxList) :
             /\ call = [fn |-> "sort_instar_months", arg |-> l]
             /\ gen = [kind |-> "any"]
       \/ \E l \in SeqsUpTo(AdmediaPool, MaxList - 1) :
             /\ call = [fn |-> "sort_admedia_months", arg |-> l]
             /\ gen = [kind |-> "any"]
       \/ \E v \in AdmediaPool \cup InstarPool, fn \in {"parse_instar_label", "parse_admedia_stored"} :
             /\ call = [fn |-> fn, arg |-> v]
             /\ gen = [kind |-> "any"]

Called(val) ==
    /\ ret' = After(val)
    /\ UNCHANGED <<call, gen, svcVars, impVars>>

AdmediaLabelToStored ==
    /\ call.fn = "admedia_label_to_stored" /\ ret.n = 0
    /\ Called(admedia_label_to_stored(call.arg))

\* the conversion back of what admedia_label_to_stored returned
AdmediaStoredToLabel ==
    /\ call.fn = "admedia_label_to_stored" /\ ret.n = 1
    /\ Called(admedia_stored_to_label(ret.val))

NormalizeAdmediaMonths ==
    /\ call.fn = "normalize_admedia_months" /\ ret.n < 2
    /\ Called(normalize_admedia_months(Operand))

SortInstarMonths ==
    /\ call.fn = "sort_instar_months" /\ ret.n < 2
    /\ Called(sort_instar_months(Operand))

SortAdmediaMonths ==
    /\ call.fn = "sort_admedia_months" /\ ret.n < 2
    /\ Called(sort_admedia_months(Operand))

ParseSortKey ==
    /\ call.fn \in {"parse_instar_label", "parse_admedia_stored"} /\ ret.n = 0
    /\ Called(IF call.fn = "parse_instar_label" THEN parse_instar_label(call.arg)
              ELSE parse_admedia_stored(call.arg))

NextMonths ==
    \/ AdmediaLabelToStored
    \/ AdmediaStoredToLabel
    \/ NormalizeAdmediaMonths
    \/ SortInstarMonths
    \/ SortAdmediaMonths
    \/ ParseSortKey

SpecMonths == InitMonths /\ [][NextMonths]_vars

Returned(fn) == call.fn = fn /\ ret.raised # "pending"

(***************************************************************************)
(* Properties of the pure functions, checked under SpecPure.               *)
(***************************************************************************)

\* C9: parse_instar_label maps every label "<Mes>/<Anio>" with Mes a full Spanish
\* month name in any letter case and Anio an integer to (Anio, index of Mes), maps
\* every string without '/', without a recognised month name, with a non-integer
\* year or with an extra '/' to (9999, 99), and raises no exception.
C9_ParseInstarLabel ==
    Returned("parse_instar_label") =>
        /\ ret.raised = "none"
        /\ gen.kind = "valid" => ret.val = <<gen.y, gen.m>>
        /\ gen.kind \in {"noslash", "badname", "badyear", "extraslash"} => ret.val = SENTINEL

\* "mARZO/2024" parsed to (2024, 3)
C9_Witness ==
    /\ Returned("parse_instar_label")
    /\ call.arg = <<"m","A","R","Z","O","/","2","0","2","4">>
    /\ gen.kind = "valid"
    /\ ret.val = <<2024, 3>>

\* "{year} {month:02d} {abbr}" as format_admedia_stored lays it out
AdmediaShape(parts, month_num) ==
    parts[1] \o SP \o Fmt02d(month_num) \o SP \o
        (IF Len(parts) > 2 THEN parts[3]
         ELSE IF month_num \in 1..12 THEN MONTHS_ABBR[month_num]
         ELSE Fmt02d(month_num))

\* C10 as stated: for every input with at least one part the output is
\* "{year} {month:02d} {abbr}", the month number being 0 both when part 1 is absent
\* and when part 1 fails to parse; the trimmed original comes back only for no parts.
C10_ShapeWheneverParts ==
    Returned("format_admedia_stored") =>
        IF gen.parts = <<>> THEN ret.val = gen.core
        ELSE ret.val = AdmediaShape(gen.parts,
                                    IF Len(gen.parts) > 1 /\ gen.int THEN gen.v ELSE 0)

\* C10 amended: the output is "{year} {month:02d} {abbr}" when part 1 is absent
\* (month 0) or parses as an integer; when part 1 is present and fails to parse,
\* or when there are no parts, the trimmed original is returned unchanged.
C10_ShapeUnlessMonthUnparsed ==
    Returned("format_admedia_stored") =>
        IF gen.parts = <<>> \/ (Len(gen.parts) > 1 /\ ~gen.int) THEN ret.val = gen.core
        ELSE ret.val = AdmediaShape(gen.parts, IF Len(gen.parts) > 1 THEN gen.v ELSE 0)

\* " 2024 Mar" (month part not an integer) comes back as "2024 Mar"
C10_Witness ==
    /\ Returned("format_admedia_stored")
    /\ gen.parts = << <<"2","0","2","4">>, <<"M","a","r">> >>
    /\ call.arg # gen.core
    /\ ret.val = <<"2","0","2","4"," ","M","a","r">>

AnyNameChar(c) == IsAlnum(c) \/ c \in {"_", "-", "$"}

\* C4 as stated: a trimmed string is accepted exactly when it is three non-empty
\* dot-separated segments, each made only of alphanumerics, '_', '-' or '$'.
C4_AcceptsAnyOfFourInEachSegment ==
    Returned("_validate_table_reference") =>
        ((ret.raised = "none") <=>
            /\ Len(gen.segs) = 3
            /\ \A i \in 1..3 : /\ gen.segs[i] # <<>>
                               /\ \A k \in DOMAIN gen.segs[i] : AnyNameChar(gen.segs[i][k]))

\* C4 amended: a trimmed string is accepted exactly when it is three non-empty
\* dot-separated segments, the project of alphanumerics or '-', the dataset of
\* alphanumerics or '_', the table of alphanumerics, '_' or '$'; the accepted
\* reference is returned trimmed.  "proj-1.ds_2.tbl$20240101" is accepted,
\* "proj 1.ds.tbl" and "proj;drop.ds.tbl" are rejected.
C4_AcceptsPerSegmentClasses ==
    Returned("_validate_table_reference") =>
        /\ (ret.raised = "none") <=>
              /\ Len(gen.segs) = 3
              /\ \A i \in 1..3 : gen.segs[i] # <<>>
              /\ \A k \in DOMAIN gen.segs[1] : IsAlnum(gen.segs[1][k]) \/ gen.segs[1][k] = "-"
              /\ \A k \in DOMAIN gen.segs[2] : IsAlnum(gen.segs[2][k]) \/ gen.segs[2][k] = "_"
              /\ \A k \in DOMAIN gen.segs[3] : IsAlnum(gen.segs[3][k]) \/ gen.segs[3][k] \in {"_", "$"}
        /\ ret.raised = "none" => ret.val = Join(gen.segs, <<".">>)
        /\ ret.raised \in {"none", "BigQueryServiceError"}
        /\ gen.segs = <<<<"p","r","o","j","-","1">>, <<"d","s","_","2">>, <<"t","b","l","$","2","0","2","4","0","1","0","1">>>> => ret.raised = "none"
        /\ gen.segs = <<<<"p","r","o","j"," ","1">>, <<"d","s">>, <<"t","b","l">> >> => ret.raised # "none"
        /\ gen.segs = <<<<"p","r","o","j",";","d","r","o","p">>, <<"d","s">>, <<"t","b","l">> >> => ret.raised # "none"

\* " proj-1.ds_2.tbl$20240101" accepted and returned trimmed
C4_Witness ==
    /\ Returned("_validate_table_reference")
    /\ gen.segs = <<<<"p","r","o","j","-","1">>, <<"d","s","_","2">>, <<"t","b","l","$","2","0","2","4","0","1","0","1">>>>
    /\ call.arg[1] = " "
    /\ ret.raised = "none"
    /\ ret.val = Join(gen.segs, <<".">>)

(***************************************************************************)
(* POST /api/instar/import (app/main.py, import_instar).  Each request is  *)
(* served by its own worker process, with its own BigQueryService, so the  *)
(* Table Store calls of two requests interleave; within a request they run *)
(* in the order of the code.                                               *)
(***************************************************************************)
MaxRequests == 2

Reqs == 1..MaxRequests

\* TABLE_NAME_PATTERN = ^[A-Za-z0-9_]+$
TABLE_NAME_PATTERN_match(name) ==
    name # <<>> /\ \A k \in DOMAIN name : IsAlnum(name[k]) \/ name[k] = "_"

TMP_1 == <<"t","m","p","_","1">>

\* the table_name form field
ImportNames == { SP \o TMP_1 \o SP, SP, <<"t","m","p","-","1">> }

\* the tables of the dataset the requests can name
TableNames == { TMP_1 }

\* the uploaded file: its content type, what read_excel makes of it, the columns
\* of the sheet and whether every cell converts to its column's type
FileOf(excel, content, columns, cells) ==
    [excel |-> excel, content |-> content, columns |-> columns, cells |-> cells]

FileCases ==
    { FileOf(FALSE, "rows", SCHEMA_COLUMNS, "ok"),
      FileOf(TRUE, "empty", <<>>, "ok"),
      FileOf(TRUE, "unreadable", <<>>, "ok"),
      FileOf(TRUE, "no_rows", SCHEMA_COLUMNS, "ok"),
      FileOf(TRUE, "rows", <<"C", "A", "B">>, "ok"),
      FileOf(TRUE, "rows", <<"A", "B">>, "ok"),
      FileOf(TRUE, "rows", <<"A", "B", "C", "Z">>, "ok"),
      FileOf(TRUE, "rows", <<"A", "Z">>, "ok"),
      FileOf(TRUE, "rows", SCHEMA_COLUMNS, "not_integer") }

\* a request's record: where it is in import_instar, the temporary table it names,
\* the status it answers with and why, whether its load job succeeded, the
\* client its process has cached, the columns of the dataframe once it has been
\* compared with the schema, and the columns the detail of the answer names
ImportAt(pc, name, status, why, loaded, cached) ==
    [pc |-> pc, name |-> name, status |-> status, why |-> why, loaded |-> loaded,
     client |-> cached, compared |-> FALSE, columns |-> <<>>, detail |-> <<>>]

\* raise HTTPException(status) or an error the exception handlers answer
Refused(status, why, cached) == ImportAt("done", <<>>, status, why, FALSE, cached)

\* temp_table = f"{config.project_id}.{config.dataset}.{sanitized_name}"
temp_table(config, sanitized_name) ==
    config.project_id \o DOT \o config.dataset \o DOT \o sanitized_name

\* the conversions of the cells by the type of their column
import_cells(file, sanitized_name, cached) ==
    IF file.cells # "ok" THEN Refused(400, "cell", cached)
    ELSE ImportAt("exists", sanitized_name, 0, "", FALSE, cached)

\* [col for col in columns if col not in others]
columns_not_in(columns, others) ==
    LET absent(col) == col \notin Range(others) IN SelectSeq(columns, absent)

\* the dataframe with its columns compared, as the rest of import_instar goes on
Compared(req, columns) == [req EXCEPT !.compared = TRUE, !.columns = columns]

\* raise HTTPException(400, detail=f"...: {', '.join(names)}")
RefusedNaming(why, names, columns, cached) ==
    [Compared(Refused(400, why, cached), columns) EXCEPT !.detail = names]

\* the comparison with the extra columns looked at first
import_compared_extra_first(file, missing, extra, sanitized_name, cached) ==
    IF extra # <<>> THEN RefusedNaming("extra_columns", extra, file.columns, cached)
    ELSE IF missing # <<>> THEN RefusedNaming("missing_columns", missing, file.columns, cached)
    ELSE Compared(import_cells(file, sanitized_name, cached), file.columns)

\* if missing: raise ...; if extra: raise ...
import_compared(file, missing, extra, sanitized_name, cached) ==
    IF missing # <<>> THEN RefusedNaming("missing_columns", missing, file.columns, cached)
    ELSE IF extra # <<>> THEN RefusedNaming("extra_columns", extra, file.columns, cached)
    ELSE Compared(import_cells(file, sanitized_name, cached), file.columns)

\* missing / extra against the columns of the destination's schema
import_columns(file, schema, sanitized_name) ==
    IF schema.raised # "none" THEN Refused(500, schema.why, schema.client)
    ELSE import_compared(file, columns_not_in(schema.val, file.columns),
                         columns_not_in(file.columns, schema.val),
                         sanitized_name, schema.client)

\* config = service.instar_config(); schema = service.get_table_schema(config.fq_table)
import_schema(s, file, c, sanitized_name, cached, env) ==
    IF c.raised # "none" THEN Refused(500, "project_id", cached)
    ELSE import_columns(file, list_columns(s, cached, fq_table(c.val), env, 1),
                        sanitized_name)

\* the checks of the uploaded file
import_file(s, file, sanitized_name, cached, env) ==
    IF ~file.excel THEN Refused(400, "file", cached)
    ELSE IF file.content = "empty" THEN Refused(400, "file", cached)
    ELSE IF file.content = "unreadable" THEN Refused(400, "file", cached)
    ELSE IF file.content = "no_rows" THEN Refused(400, "file", cached)
    ELSE import_schema(s, file, build_table_config(s, "instar"), sanitized_name,
                       cached, env)

\* the checks of sanitized_name = table_name.strip()
import_name(s, sanitized_name, file, cached, env) ==
    IF sanitized_name = <<>> THEN Refused(400, "table_name", cached)
    ELSE IF ~TABLE_NAME_PATTERN_match(sanitized_name) THEN Refused(400, "table_name", cached)
    ELSE import_file(s, file, sanitized_name, cached, env)

\* import_instar up to client = service.get_client()
import_validate(s, table_name, file, cached, env) ==
    import_name(s, Strip(table_name), file, cached, env)

\* the environments the worker processes are started in
ImportSettings ==
    { [NO_SETTINGS EXCEPT !.instar_project_id = PROJ, !.credentials = "readable",
                          !.credentials_project_id = PROJ],
      [NO_SETTINGS EXCEPT !.bigquery_project_id = PROJ, !.credentials = "unreadable"] }

InitImport ==
    /\ call = [fn |-> "none", arg |-> <<>>] /\ ret = PENDING /\ gen = [kind |-> "none"]
    /\ settings \in ImportSettings
    /\ client = "none"
    /\ request = IDLE /\ result = NOT_CALLED /\ response = 0
    /\ \E present \in BOOLEAN :
           tables = [n \in TableNames |-> [present |-> present, owner |-> 0]]
    /\ imports = [r \in Reqs |-> ImportAt("idle", <<>>, 0, "", FALSE, "none")]

ImportStep(r, next) ==
    /\ imports' = [imports EXCEPT ![r] = next]
    /\ UNCHANGED <<pureVars, svcVars>>

\* the request arrives and is validated against the form, the file and the schema
ImportBegin(r) ==
    /\ imports[r].pc = "idle"
    /\ \E table_name \in ImportNames, file \in FileCases, fail \in 0..1 :
           ImportStep(r, import_validate(settings, table_name, file, imports[r].client,
                                         Env(<<>>, fail)))
    /\ UNCHANGED tables

\* client.get_table(temp_table): NotFound lets the import go on, a table found
\* refuses it, any other error of the store is not handled
import_exists(req, present, failed) ==
    IF failed THEN [req EXCEPT !.pc = "done", !.status = 500, !.why = "store"]
    ELSE IF present THEN [req EXCEPT !.pc = "done", !.status = 400, !.why = "table_exists"]
    ELSE [req EXCEPT !.pc = "load"]

ImportCheckExists(r) ==
    /\ imports[r].pc = "exists"
    /\ \E failed \in BOOLEAN :
           ImportStep(r, import_exists(imports[r], tables[imports[r].name].present, failed))
    /\ UNCHANGED tables

\* load_table_from_dataframe(..., WRITE_TRUNCATE) and load_job.result()
ImportLoad(r) ==
    /\ imports[r].pc = "load"
    /\ \/ /\ ImportStep(r, [imports[r] EXCEPT !.pc = "append", !.loaded = TRUE])
          /\ tables' = [tables EXCEPT ![imports[r].name] = [present |-> TRUE, owner |-> r]]
       \/ /\ ImportStep(r, [imports[r] EXCEPT !.pc = "done", !.status = 400, !.why = "load"])
          /\ UNCHANGED tables

\* except BigQueryServiceError: raise HTTPException(400); else the rows appended
import_appended(req, outcome) ==
    [req EXCEPT !.pc = "cleanup",
                !.status = IF outcome.raised # "none" THEN 400 ELSE 200,
                !.why = outcome.why,
                !.client = outcome.client]

\* service.append_rows(temp_table -> config.fq_table, months=[]); the INSERT fails
\* when the store fails and when the temporary table is no longer there
ImportAppend(r) ==
    /\ imports[r].pc = "append"
    /\ \E fail \in 0..1 :
           ImportStep(r, import_appended(imports[r],
               append_rows(settings, imports[r].client,
                           temp_table(build_table_config(settings, "instar").val,
                                      imports[r].name),
                           fq_table(build_table_config(settings, "instar").val),
                           INSTAR_MONTH_COLUMN, <<>>, "instar",
                           Env(<<>>, IF tables[imports[r].name].present THEN fail ELSE 1))))
    /\ UNCHANGED tables

\* finally: client.delete_table(temp_table, not_found_ok=True), a GoogleAPICallError
\* of which is passed over; then the status decided by the append is answered
ImportCleanup(r) ==
    /\ imports[r].pc = "cleanup"
    /\ ImportStep(r, [imports[r] EXCEPT !.pc = "done"])
    /\ \/ tables' = [tables EXCEPT ![imports[r].name].present = FALSE]
       \/ UNCHANGED tables

\* the answer is sent; the process keeps its client
ImportFinish(r) ==
    /\ imports[r].pc = "done"
    /\ ImportStep(r, ImportAt("idle", <<>>, 0, "", FALSE, imports[r].client))
    /\ UNCHANGED tables

NextImport ==
    \E r \in Reqs :
        \/ ImportBegin(r)
        \/ ImportCheckExists(r)
        \/ ImportLoad(r)
        \/ ImportAppend(r)
        \/ ImportCleanup(r)
        \/ ImportFinish(r)

SpecImport == InitImport /\ [][NextImport]_vars

(***************************************************************************)
(* Claims about the facade and the handlers.                               *)
(***************************************************************************)
\* the request being served is a call of op that got as far as the facade
Served(op) == request.op = op /\ result.raised # "not called"

\* an empty list, or only empty or whitespace strings
AllBlank(months) == \A i \in DOMAIN months : \A k \in DOMAIN months[i] : IsSpace(months[i][k])

\* the process configuration names a project for the family
ProjectConfigured(family) ==
    \/ settings.bigquery_project_id # NONE
    \/ family = "instar" /\ settings.instar_project_id # NONE
    \/ family = "admedia" /\ settings.admedia_project_id # NONE

\* no Table Store call was issued and no client was constructed
NoStoreContact == result.calls = <<>> /\ client = request.cached

\* C2 as stated: a delete whose month list normalizes to the empty set returns 0
\* affected rows and issues no call to the Table Store (no client, no query).
C2_EmptyDeleteReturnsZero ==
    (Served("delete_months") /\ AllBlank(request.months))
        => result.raised = "none" /\ result.val = 0 /\ NoStoreContact

\* C2 amended: a delete whose month list normalizes to the empty set never
\* contacts the Table Store; it returns 0 when a project id is configured for the
\* family and fails with the configuration error otherwise.
C2_EmptyDeleteNoStoreContact ==
    (Served("delete_months") /\ AllBlank(request.months))
        => /\ NoStoreContact
           /\ IF ProjectConfigured(request.family)
              THEN result.raised = "none" /\ result.val = 0
              ELSE result.raised = "BigQueryServiceError" /\ result.why = "project_id"

\* a delete of a whitespace-only month list returned 0 under credentials that
\* cannot be read and a store that would have failed
C2_Witness ==
    /\ Served("delete_months")
    /\ request.months # <<>> /\ AllBlank(request.months)
    /\ settings.credentials = "unreadable" /\ request.env.fail = 1
    /\ result.raised = "none" /\ result.val = 0

\* C3: export_rows called with zero months raises the validation error, and no
\* Table Store call (schema lookup or query) is issued before or after it; over
\* HTTP the request schema refuses such a request before export_rows is called.
C3_ExportZeroMonthsRaisesFirst ==
    (request.op = "export_rows" /\ request.months = <<>>)
        => /\ NoStoreContact
           /\ request.layer = "service"
                  => result.raised = "BigQueryServiceError" /\ result.why = "empty_months"
           /\ request.layer = "http" => response = 422 /\ result.raised = "not called"

\* export_rows was called with zero months, under credentials that cannot be read,
\* and raised for the months
C3_Witness ==
    /\ request.op = "export_rows" /\ request.layer = "service" /\ request.months = <<>>
    /\ settings.credentials = "unreadable"
    /\ result.raised = "BigQueryServiceError" /\ result.why = "empty_months"

\* C5: whenever the caller supplies a non-empty months list the copy issued is
\* filtered by the family-normalized month set; an unfiltered copy is issued only
\* when no months were supplied.
C5_FilteredWheneverMonthsSupplied ==
    (Served("append_rows") /\ result.calls # <<>>)
        => /\ request.months # <<>>
                  => /\ result.calls[1].filtered
                     /\ result.calls[1].months = normalize_months(request.family, request.months)
           /\ ~result.calls[1].filtered => request.months = <<>>

\* the errors the facade raises for what the caller sent
ValidationErrors == {"table_reference", "unknown_column", "empty_months"}

\* C6: every validation error reaches the HTTP caller as a client error (4xx),
\* never as a server error.
C6_ValidationErrorsAreClientErrors ==
    (request.layer = "http" /\ result.raised = "BigQueryServiceError"
                            /\ result.why \in ValidationErrors)
        => response \in 400..499

\* "<MonthAbbr>/<Year>": one of the twelve abbreviations, a slash, digits
IsDisplayLabel(s) ==
    /\ Len(s) > 4
    /\ SubSeq(s, 1, 3) \in Range(MONTHS_ABBR) /\ s[4] = "/"
    /\ \A k \in 5..Len(s) : IsDigit(s[k])

\* "<Year> <MM> <Abbr>": digits, a space, two digits, a space, letters
IsStoredForm(s) ==
    /\ Len(s) > 8
    /\ \A k \in 1..(Len(s) - 7) : IsDigit(s[k])
    /\ s[Len(s) - 6] = " " /\ IsDigit(s[Len(s) - 5]) /\ IsDigit(s[Len(s) - 4])
    /\ s[Len(s) - 3] = " "
    /\ \A k \in (Len(s) - 2)..Len(s) : IsAlnum(s[k])

\* the rows are strings in the stored form of a month 1..12
StoredRows(rows) ==
    \A i \in DOMAIN rows :
        /\ rows[i].type = "str" /\ IsStoredForm(rows[i].s)
        /\ parse_admedia_stored(rows[i].s)[2] \in 1..12

\* C7: listing the admedia months returns display labels "<MonthAbbr>/<Year>" for
\* the parseable stored values of the table, and no stored-form value.
C7_AdmediaListReturnsLabels ==
    (Served("list_months") /\ request.family = "admedia" /\ result.raised = "none"
                           /\ StoredRows(request.env.rows))
        => \A i \in DOMAIN result.val :
               IsDisplayLabel(result.val[i]) /\ ~IsStoredForm(result.val[i])

\* what the family's pipeline makes of one string of the table
ListedAs(family, s) ==
    IF family = "instar" THEN s ELSE normalize_admedia_value(Strip(s))

\* C8: listing the months, for both families, discards every value that is not a
\* string, so each value returned comes from a string of the table.
C8_OnlyStringsListed ==
    (Served("list_months") /\ result.raised = "none")
        => \A i \in DOMAIN result.val :
               \E j \in DOMAIN request.env.rows :
                   /\ request.env.rows[j].type = "str"
                   /\ result.val[i] = ListedAs(request.family, request.env.rows[j].s)

(***************************************************************************)
(* Claims about the import.                                                *)
(***************************************************************************)
\* C1: once an import request has loaded rows into its temporary table, the table
\* is removed on every exit path, so no import request ends with the temporary
\* table it created still present in the Table Store.
C1_TempTableRemoved ==
    \A r \in Reqs :
        (imports[r].pc = "done" /\ imports[r].loaded)
            => ~(tables[imports[r].name].present /\ tables[imports[r].name].owner = r)

\* the schema's columns the uploaded columns lack, and the uploaded columns the
\* schema does not have
MissingOf(columns) == Range(SCHEMA_COLUMNS) \ Range(columns)
ExtraOf(columns) == Range(columns) \ Range(SCHEMA_COLUMNS)

\* the request was refused with a 400 that names exactly these columns, and
\* nothing was loaded into a temporary table or appended from one
RefusedNamingOnly(req, why, names) ==
    /\ req.pc = "done" /\ req.status = 400 /\ req.why = why
    /\ Range(req.detail) = names
    /\ ~req.loaded /\ req.name = <<>>

\* the request holds a dataframe it goes on to load, has loaded or has appended
AcceptedForLoading(req) == req.pc \in {"exists", "load", "append", "cleanup"} \/ req.loaded

\* the upload is accepted for loading only with exactly the schema's columns
AcceptedOnlyWithSchemaColumns ==
    \A r \in Reqs :
        AcceptedForLoading(imports[r])
            => /\ imports[r].compared
               /\ Range(imports[r].columns) = Range(SCHEMA_COLUMNS)

\* C15 (as stated): the upload is accepted for loading only if its column set
\* equals the schema's column set; whenever a schema column is absent the request
\* fails naming the missing columns, whenever an uploaded column is not in the
\* schema the request fails naming the extra columns, and in both cases nothing
\* is loaded or appended.
C15_MissingAndExtraEachNamed ==
    /\ AcceptedOnlyWithSchemaColumns
    /\ \A r \in Reqs :
           imports[r].compared
               => /\ MissingOf(imports[r].columns) # {}
                      => RefusedNamingOnly(imports[r], "missing_columns",
                                           MissingOf(imports[r].columns))
                  /\ ExtraOf(imports[r].columns) # {}
                      => RefusedNamingOnly(imports[r], "extra_columns",
                                           ExtraOf(imports[r].columns))

\* C15 (amended): the upload is accepted for loading only if its column set
\* equals the schema's column set; whenever a schema column is absent the request
\* fails naming the missing columns and no others; when no schema column is absent
\* but an uploaded column is not in the schema the request fails naming the extra
\* columns; and in both cases nothing is loaded or appended.
C15_MissingNamedBeforeExtra ==
    /\ AcceptedOnlyWithSchemaColumns
    /\ \A r \in Reqs :
           imports[r].compared
               => /\ MissingOf(imports[r].columns) # {}
                      => RefusedNamingOnly(imports[r], "missing_columns",
                                           MissingOf(imports[r].columns))
                  /\ (MissingOf(imports[r].columns) = {} /\ ExtraOf(imports[r].columns) # {})
                      => RefusedNamingOnly(imports[r], "extra_columns",
                                           ExtraOf(imports[r].columns))

\* an upload that both lacks schema columns and has columns of its own was refused
\* while another request holds an accepted upload with the columns in another order
C15_Witness ==
    \E r, q \in Reqs :
        /\ imports[r].compared /\ imports[r].pc = "done"
        /\ MissingOf(imports[r].columns) # {} /\ ExtraOf(imports[r].columns) # {}
        /\ imports[q].pc = "load" /\ imports[q].columns # SCHEMA_COLUMNS

\* request r takes a step of import_instar
Steps(r) == imports'[r] # imports[r]

\* r's existence check finds the table: r fails, and the table is left as it was
FoundTableRefuses(r) ==
    (Steps(r) /\ imports[r].pc = "exists" /\ tables[imports[r].name].present)
        => /\ imports'[r].pc = "done" /\ imports'[r].status >= 400
           /\ ~imports'[r].loaded
           /\ tables' = tables

\* r's load job or r's delete_table changes a table only if the table was not
\* there or r itself had loaded it
ChangesOnlyOwnTable(r) ==
    (Steps(r) /\ imports[r].pc \in {"load", "cleanup"} /\ tables' # tables)
        => \/ ~tables[imports[r].name].present
           \/ tables[imports[r].name].owner = r

\* C18: an import request whose existence check finds the table fails without
\* loading into, appending from or deleting it; and under any interleaving of the
\* import requests that use the same temporary-table name, none truncates or
\* deletes a table it did not itself create.
C18_ImportNeverDestroysForeignTable ==
    [][\A r \in Reqs : FoundTableRefuses(r) /\ ChangesOnlyOwnTable(r)]_vars

(***************************************************************************)
(* Claims about the month functions, checked under SpecMonths.             *)
(***************************************************************************)
\* fn has been called n times on the argument and then on its own results
CalledTimes(fn, n) == call.fn = fn /\ ret.n = n

\* "<Year> <MM> <Abbr>" of month m of year y
CanonicalStored(m, y) == y \o SP \o TwoDigits(m) \o SP \o MONTHS_ABBR[m]

\* C11: for every label "<Abbr>/<Year>" with Abbr one of the twelve capitalized
\* abbreviations and Year a year written in digits, admedia_label_to_stored gives
\* "<Year> <MM> <Abbr>" and admedia_stored_to_label of that gives the label back.
C11_LabelRoundTrip ==
    (call.fn = "admedia_label_to_stored" /\ gen.kind = "label")
        => /\ ret.n = 1 => ret.val = CanonicalStored(gen.m, gen.y)
           /\ ret.n = 2 => ret.val = call.arg /\ ret.prev = CanonicalStored(gen.m, gen.y)

\* "Mar/2024" went to "2024 03 Mar" and came back
C11_Witness ==
    /\ CalledTimes("admedia_label_to_stored", 2)
    /\ call.arg = <<"M","a","r","/","2","0","2","4">>
    /\ ret.prev = <<"2","0","2","4"," ","0","3"," ","M","a","r">>
    /\ ret.val = <<"M","a","r","/","2","0","2","4">>

\* C12: for every abbreviation and year, a non-empty list of spellings of that one
\* month (the label, the label in another letter case, the stored value, the stored
\* value without abbreviation or with dashes; any order, with repeats) normalizes
\* to the single-element list holding "<Year> <MM> <Abbr>".
C12_SpellingsCollapse ==
    (call.fn = "normalize_admedia_months" /\ gen.kind = "spellings" /\ ret.n >= 1)
        => ret.val = <<CanonicalStored(gen.m, gen.y)>>

\* <<"Mar/2024", "2024 03 Mar", "mar/2024">> normalized to <<"2024 03 Mar">>
C12_Witness ==
    /\ CalledTimes("normalize_admedia_months", 1)
    /\ call.arg = << <<"M","a","r","/","2","0","2","4">>,
                     <<"2","0","2","4"," ","0","3"," ","M","a","r">>,
                     <<"m","a","r","/","2","0","2","4">> >>
    /\ ret.val = << <<"2","0","2","4"," ","0","3"," ","M","a","r">> >>

\* C13: sort_instar_months is idempotent: sorting the list it returned returns
\* that list unchanged, for every list of strings.
C13_SortInstarIdempotent ==
    CalledTimes("sort_instar_months", 2) => ret.val = ret.prev

\* a list with two spellings of one month and two unparseable values was sorted
\* into another order, and sorting the result changed nothing
C13_Witness ==
    /\ CalledTimes("sort_instar_months", 2)
    /\ call.arg = << <<"x">>, <<"m","a","r","z","o","/","2","0","2","4">>,
                     <<"M","a","r","z","o","/","2","0","2","4">> >>
    /\ ret.prev # call.arg
    /\ ret.val = ret.prev

\* the sort key of a value under the function that sorted it
SortKey(fn, value) ==
    IF fn = "sort_instar_months" THEN parse_instar_label(value) ELSE parse_admedia_stored(value)

\* a sort function has returned
Sorted_by(fn) == call.fn = fn /\ ret.n >= 1

\* the key is that of a year before 9999, or of 9999 and a month before 99
BelowSentinel(key) == key[1] < 9999 \/ (key[1] = 9999 /\ key[2] < 99)

\* C14 as stated: in the output of sort_instar_months and of sort_admedia_months
\* every value that maps to the sentinel key (9999, 99) comes after every value
\* that parses to a real (year, month) key, for every input list.
C14_UnknownSortsLast ==
    \A fn \in {"sort_instar_months", "sort_admedia_months"} :
        Sorted_by(fn) =>
            \A i, j \in DOMAIN ret.val :
                (SortKey(fn, ret.val[i]) = SENTINEL /\ SortKey(fn, ret.val[j]) # SENTINEL)
                    => j < i

\* C14 amended: every value that maps to the sentinel key comes after every value
\* whose key is below (9999, 99), and before every value whose key is above it.
C14_UnknownSortsAfterKeysBelowSentinel ==
    \A fn \in {"sort_instar_months", "sort_admedia_months"} :
        Sorted_by(fn) =>
            \A i, j \in DOMAIN ret.val :
                SortKey(fn, ret.val[i]) = SENTINEL
                    => /\ BelowSentinel(SortKey(fn, ret.val[j])) => j < i
                       /\ (SortKey(fn, ret.val[j]) # SENTINEL
                              /\ ~BelowSentinel(SortKey(fn, ret.val[j]))) => i < j

\* <<"x", "Marzo/10000", "Marzo/2024">> sorted to <<"Marzo/2024", "x", "Marzo/10000">>
C14_Witness ==
    /\ CalledTimes("sort_instar_months", 1)
    /\ call.arg = << <<"x">>, <<"M","a","r","z","o","/","1","0","0","0","0">>,
                     <<"M","a","r","z","o","/","2","0","2","4">> >>
    /\ ret.val = << <<"M","a","r","z","o","/","2","0","2","4">>, <<"x">>,
                    <<"M","a","r","z","o","/","1","0","0","0","0">> >>

\* C16: the sort key returned by parse_instar_label and by parse_admedia_stored is,
\* for every input string, the sentinel (9999, 99) or a pair (year, month) with the
\* month in 1..12.
C16_MonthOfKeyInRange ==
    \A fn \in {"parse_instar_label", "parse_admedia_stored"} :
        CalledTimes(fn, 1) => ret.val = SENTINEL \/ ret.val[2] \in 1..12

\* C17: normalize_admedia_months is idempotent: normalizing the list it returned
\* returns that list unchanged, for every list of strings, labels with an empty
\* year or a year holding spaces or '-' included.
C17_NormalizeAdmediaIdempotent ==
    CalledTimes("normalize_admedia_months", 2) => ret.val = ret.prev
====
